---- MODULE Spec2Model ----
(***************************************************************************)
(* k-mer frequency index of the sequences of a FASTA file                  *)
(* (miniproject_solution.py): extract_all_kmers, get_unique_kmers,         *)
(* count_kmers, all_kmer_counts_hist, build_kmer_freq_index and main.      *)
(*                                                                         *)
(* Strings are sequences of one-character strings.  A Python dict whose    *)
(* iteration order matters is a sequence of [key, val] records with        *)
(* distinct keys, in insertion order; a dict whose order is never observed *)
(* (a k-mer count mapping) is a function.  An operation that may raise     *)
(* returns a record with a field "raised".                                 *)
(***************************************************************************)
EXTENDS Integers, Sequences, FiniteSets, TLC

VARIABLES pc, k, fasta, sequences, unique_kmers, idx, kmer_counts,
          all_kmer_counts, figure, csv, err, call

vars == <<pc, k, fasta, sequences, unique_kmers, idx, kmer_counts,
          all_kmer_counts, figure, csv, err, call>>

\* ------------------------------------------------------------------ bounds

\* records of an input mapping
MaxRecs == 2
\* bases of an input mapping, over all of its records
MaxTotal == 3
\* largest k-mer length tried (k ranges over 0..MaxK; 0 stands for k <= 0)
MaxK == 2
\* longest sequence handed to extract_all_kmers on its own
MaxLen == 4
\* longest sequence behind either argument of count_kmers on its own
MaxCountLen == 2
\* largest count in a table handed to build_kmer_freq_index on its own
MaxCount == 2

\* ------------------------------------------------------------- data model

Bases == {"A", "C", "G", "T"}

Max(a, b) == IF a >= b THEN a ELSE b

SeqsUpTo(n) == UNION {[1..m -> Bases] : m \in 0..n}

\* FASTA header lines: two of them share their first token
Headers ==
    { <<">", "a">>, <<">", "a", " ", "x">>, <<">", "b", " ", "y">> }

DictKeys(d) == [j \in 1..Len(d) |-> d[j].key]

DictHas(d, key) == \E j \in 1..Len(d) : d[j].key = key

\* d[key] = val: an existing key keeps its place, a new one goes last
DictSet(d, key, val) ==
    IF DictHas(d, key)
    THEN [j \in 1..Len(d) |-> IF d[j].key = key
                              THEN [key |-> key, val |-> val] ELSE d[j]]
    ELSE Append(d, [key |-> key, val |-> val])

RECURSIVE PrefixSum(_, _)
PrefixSum(lens, j) == IF j = 0 THEN 0 ELSE lens[j] + PrefixSum(lens, j - 1)

\* n distinct header lines, in file order
HeaderLists(n) ==
    {hs \in [1..n -> Headers] :
        \A a \in 1..n : \A b \in 1..n : a # b => hs[a] # hs[b]}

\* the lengths of n sequences holding t bases in all
Lengths(n, t) == {lens \in [1..n -> 0..t] : PrefixSum(lens, Len(lens)) = t}

\* the mapping with headers hs whose sequences are flat cut at lens: every
\* mapping of at most MaxRecs records holding at most MaxTotal bases in all is
\* one of these
Cut(hs, lens, flat) ==
    [j \in 1..Len(hs) |->
        [key |-> hs[j],
         val |-> SubSeq(flat, PrefixSum(lens, j - 1) + 1, PrefixSum(lens, j))]]

NoError == [type |-> "", subject |-> <<>>]

Raise(type, subject) == [type |-> type, subject |-> subject]

\* --------------------------------------------------------- collaborators

\* argparse_example.extract_kmers: the k-length substrings at offsets
\* 0 .. len - k, in order; none when k > len
extract_kmers(sequence, kk) ==
    [j \in 1..Max(0, Len(sequence) - kk + 1) |-> SubSeq(sequence, j, j + kk - 1)]

Complement(b) ==
    CASE b = "A" -> "T" [] b = "T" -> "A" [] b = "C" -> "G" [] b = "G" -> "C"

\* modded_script_example.reverse_complement
reverse_complement(sequence) ==
    [j \in 1..Len(sequence) |-> Complement(sequence[Len(sequence) + 1 - j])]

\* design_process_example.get_sequences: header line -> sequence, in file order
get_sequences(file) == file

\* ------------------------------------------------------ extract_all_kmers

extract_all_kmers_ForwardOnly(sequence, kk) == extract_kmers(sequence, kk)

extract_all_kmers(sequence, kk) ==
    LET all_kmers == extract_kmers(sequence, kk)
        reverse_complement_seq == reverse_complement(sequence)
    IN  all_kmers \o extract_kmers(reverse_complement_seq, kk)

\* ------------------------------------------------------- get_unique_kmers

RECURSIVE PoolKmers(_, _, _)
\* the loop of get_unique_kmers: all_kmers += kmers, record by record
PoolKmers(seqs, kk, j) ==
    IF j > Len(seqs) THEN <<>>
    ELSE extract_all_kmers(seqs[j].val, kk) \o PoolKmers(seqs, kk, j + 1)

SetOf(list) == {list[j] : j \in 1..Len(list)}

get_unique_kmers_FirstOnly(seqs, kk) ==
    IF Len(seqs) = 0 THEN {} ELSE SetOf(extract_all_kmers(seqs[1].val, kk))

get_unique_kmers(seqs, kk) == SetOf(PoolKmers(seqs, kk, 1))

\* ------------------------------------------------------------ count_kmers

RECURSIVE CountLoop(_, _, _)
\* kmer_counts[kmer] += 1 for each kmer in turn; a missing key raises KeyError
CountLoop(counts, kmers, j) ==
    IF j > Len(kmers) THEN [raised |-> FALSE, err |-> NoError, value |-> counts]
    ELSE IF kmers[j] \notin DOMAIN counts
         THEN [raised |-> TRUE, err |-> Raise("KeyError", kmers[j]),
               value |-> <<>>]
         ELSE CountLoop([counts EXCEPT ![kmers[j]] = @ + 1], kmers, j + 1)

RECURSIVE CountLoopDefault(_, _, _)
CountLoopDefault(counts, kmers, j) ==
    IF j > Len(kmers) THEN [raised |-> FALSE, err |-> NoError, value |-> counts]
    ELSE LET old == IF kmers[j] \in DOMAIN counts THEN counts[kmers[j]] ELSE 0
         IN  CountLoopDefault(
                 [x \in DOMAIN counts \cup {kmers[j]} |->
                     IF x = kmers[j] THEN old + 1 ELSE counts[x]],
                 kmers, j + 1)

\* kmer_counts[kmer] = kmer_counts.get(kmer, 0) + 1
count_kmers_Default(kmer_index, kmers) ==
    LET r == CountLoopDefault([x \in kmer_index |-> 0], kmers, 1)
    IN  [raised |-> r.raised, err |-> r.err, value |-> r.value,
         kmer_index |-> kmer_index, kmers |-> kmers]

\* kmer_counts[kmer] = 1
count_kmers_Presence(kmer_index, kmers) ==
    IF \E j \in 1..Len(kmers) : kmers[j] \notin kmer_index
    THEN [raised |-> TRUE,
          err |-> Raise("KeyError",
                        kmers[CHOOSE j \in 1..Len(kmers) :
                                  kmers[j] \notin kmer_index]),
          value |-> <<>>, kmer_index |-> kmer_index, kmers |-> kmers]
    ELSE [raised |-> FALSE, err |-> NoError,
          value |-> [x \in kmer_index |-> IF x \in SetOf(kmers) THEN 1 ELSE 0],
          kmer_index |-> kmer_index, kmers |-> kmers]

\* The fields kmer_index and kmers are the two argument objects as the call
\* leaves them: the function only reads them.
count_kmers(kmer_index, kmers) ==
    LET r == CountLoop([x \in kmer_index |-> 0], kmers, 1)
    IN  [raised |-> r.raised, err |-> r.err, value |-> r.value,
         kmer_index |-> kmer_index, kmers |-> kmers]

\* --------------------------------------------------- all_kmer_counts_hist

\* plt.subplots(1, ncols, sharey=True): a grid of zero columns is refused
\* ("Number of columns must be a positive integer"); one column gives the
\* Axes itself (squeeze=True), two or more an array of Axes
plt_subplots(ncols) ==
    IF ncols <= 0
    THEN [raised |-> TRUE, err |-> Raise("ValueError", <<"0">>),
          iterable |-> FALSE, n |-> 0]
    ELSE [raised |-> FALSE, err |-> NoError, iterable |-> ncols >= 2,
          n |-> ncols]

\* the methods of an Axes that the module could mean
AxesMethods == { <<"h", "i", "s", "t">>, <<"s", "e", "t", "_", "t", "i", "t", "l", "e">> }

\* the method line 107 calls on each Axes
HistCall == <<"h", "i", "s">>

\* list(kmer_counts.values()) as a histogram sees it: count value -> number
\* of k-mers with that count
CountsOf(kmer_counts_) ==
    [c \in {kmer_counts_[x] : x \in DOMAIN kmer_counts_} |->
        Cardinality({x \in DOMAIN kmer_counts_ : kmer_counts_[x] = c})]

\* the subplots the loop over zip(axes, all_kmer_counts) fills
Subplots(akc) ==
    [j \in 1..Len(akc) |-> [title |-> akc[j].key, data |-> CountsOf(akc[j].val)]]

NoFigure == [shown |-> FALSE, subplots |-> <<>>]

\* every exception of the plotting is caught and passed over
all_kmer_counts_hist_Swallow(akc) ==
    [raised |-> FALSE, err |-> NoError, shown |-> TRUE,
     subplots |-> IF Len(akc) >= 2 THEN Subplots(akc) ELSE <<>>]

\* plt.show() placed before the loop that fills the subplots
all_kmer_counts_hist_ShowFirst(akc) ==
    LET sp == plt_subplots(Len(akc))
    IN  IF sp.raised
        THEN [raised |-> TRUE, err |-> sp.err, shown |-> FALSE, subplots |-> <<>>]
        ELSE [raised |-> TRUE,
              err |-> IF sp.iterable THEN Raise("AttributeError", HistCall)
                      ELSE Raise("TypeError", <<"A", "x", "e", "s">>),
              shown |-> TRUE, subplots |-> <<>>]

all_kmer_counts_hist(akc) ==
    LET sp == plt_subplots(Len(akc))
    IN  IF sp.raised
        THEN [raised |-> TRUE, err |-> sp.err, shown |-> FALSE, subplots |-> <<>>]
        ELSE IF ~sp.iterable
        THEN \* zip(axes, ...) over a single Axes
             [raised |-> TRUE, err |-> Raise("TypeError", <<"A", "x", "e", "s">>),
              shown |-> FALSE, subplots |-> <<>>]
        ELSE IF HistCall \notin AxesMethods
        THEN \* the first pass of the loop: ax.his(counts)
             [raised |-> TRUE, err |-> Raise("AttributeError", HistCall),
              shown |-> FALSE, subplots |-> <<>>]
        ELSE [raised |-> FALSE, err |-> NoError, shown |-> TRUE,
              subplots |-> Subplots(akc)]

\* -------------------------------------------------- build_kmer_freq_index

BaseOrd(b) == CASE b = "A" -> 1 [] b = "C" -> 2 [] b = "G" -> 3 [] b = "T" -> 4

RECURSIVE LexLeq(_, _)
\* string order, as sort_index() orders the row labels
LexLeq(a, b) ==
    IF a = <<>> THEN TRUE
    ELSE IF b = <<>> THEN FALSE
    ELSE IF a[1] # b[1] THEN BaseOrd(a[1]) < BaseOrd(b[1])
    ELSE LexLeq(Tail(a), Tail(b))

RECURSIVE SortedSeq(_)
SortedSeq(S) ==
    IF S = {} THEN <<>>
    ELSE LET m == CHOOSE x \in S : \A y \in S : LexLeq(x, y)
         IN  <<m>> \o SortedSeq(S \ {m})

RECURSIVE SumOver(_, _)
\* the sum of f over the keys S
SumOver(f, S) ==
    IF S = {} THEN 0
    ELSE LET x == CHOOSE y \in S : TRUE IN f[x] + SumOver(f, S \ {x})

\* a cell of the table: a quotient num/den kept exact, or NaN, or inf
NaN == [kind |-> "nan", num |-> 0, den |-> 0]

\* float division of a count by a column sum
Div(c, t) ==
    IF t # 0 THEN [kind |-> "num", num |-> c, den |-> t]
    ELSE IF c = 0 THEN NaN
    ELSE [kind |-> "inf", num |-> c, den |-> 0]

\* DataFrame.from_dict(all_kmer_counts).sort_index(): a column per key, a row
\* per inner key
RowLabels(akc) == UNION {DOMAIN akc[j].val : j \in 1..Len(akc)}

\* kmer_freq_index.sum(axis=0)
ColumnSum(akc, j) == SumOver(akc[j].val, DOMAIN akc[j].val)

\* every column divided by the sum of all cells of the table
build_kmer_freq_index_GrandTotal(akc) ==
    LET total == SumOver([j \in 1..Len(akc) |-> ColumnSum(akc, j)], 1..Len(akc))
    IN  [index |-> SortedSeq(RowLabels(akc)),
         columns |-> DictKeys(akc),
         cell |-> [j \in 1..Len(akc) |->
                      [r \in RowLabels(akc) |->
                          IF r \in DOMAIN akc[j].val
                          THEN Div(akc[j].val[r], total) ELSE NaN]]]

build_kmer_freq_index(akc) ==
    [index |-> SortedSeq(RowLabels(akc)),
     columns |-> DictKeys(akc),
     cell |-> [j \in 1..Len(akc) |->
                  [r \in RowLabels(akc) |->
                      IF r \in DOMAIN akc[j].val
                      THEN Div(akc[j].val[r], ColumnSum(akc, j)) ELSE NaN]]]

NoCsv == [written |-> FALSE, name |-> "", table |-> build_kmer_freq_index(<<>>)]

\* ------------------------------------------------------------------- main

RECURSIVE FirstToken(_)
\* record_name.split(' ')[0]
FirstToken(s) ==
    IF s = <<>> \/ s[1] = " " THEN <<>> ELSE <<s[1]>> \o FirstToken(Tail(s))

\* record_name.split(' ')[0][1:]
sequence_name(record_name) ==
    LET tok == FirstToken(record_name)
    IN  IF tok = <<>> THEN <<>> ELSE Tail(tok)

NoCall == [fn |-> "none"]

Init ==
    /\ pc = "start"
    /\ k \in 0..MaxK
    /\ \E n \in 0..MaxRecs, t \in 0..MaxTotal :
          \E hs \in HeaderLists(n), lens \in Lengths(n, t), flat \in [1..t -> Bases] :
             fasta = Cut(hs, lens, flat)
    /\ sequences = <<>>
    /\ unique_kmers = {}
    /\ idx = 0
    /\ kmer_counts = <<>>
    /\ all_kmer_counts = <<>>
    /\ figure = NoFigure
    /\ csv = NoCsv
    /\ err = NoError
    /\ call = NoCall

\* line 143
GetSequences ==
    /\ pc = "start"
    /\ sequences' = get_sequences(fasta)
    /\ pc' = "unique"
    /\ UNCHANGED <<k, fasta, unique_kmers, idx, kmer_counts, all_kmer_counts,
                   figure, csv, err, call>>

\* line 144
GetUniqueKmers ==
    /\ pc = "unique"
    /\ unique_kmers' = get_unique_kmers(sequences, k)
    /\ pc' = "count"
    /\ UNCHANGED <<k, fasta, sequences, idx, kmer_counts, all_kmer_counts,
                   figure, csv, err, call>>

\* lines 147-153: one pass of the loop over the records
CountRecord ==
    /\ pc = "count"
    /\ idx < Len(sequences)
    /\ LET record_name == sequences[idx + 1].key
           sequence == sequences[idx + 1].val
           kmers == extract_all_kmers(sequence, k)
           r == count_kmers(unique_kmers, kmers)
       IN  IF r.raised
           THEN /\ pc' = "failed"
                /\ err' = r.err
                /\ UNCHANGED <<idx, kmer_counts, all_kmer_counts>>
           ELSE /\ idx' = idx + 1
                /\ kmer_counts' = r.value
                /\ all_kmer_counts' =
                       DictSet(all_kmer_counts, sequence_name(record_name), r.value)
                /\ UNCHANGED <<pc, err>>
    /\ UNCHANGED <<k, fasta, sequences, unique_kmers, figure, csv, call>>

\* lines 155-158: the figure, then the table and its file; an exception ends
\* the run where it is raised
PlotAndWrite ==
    /\ pc = "count"
    /\ idx = Len(sequences)
    /\ LET h == all_kmer_counts_hist(all_kmer_counts)
       IN  /\ figure' = [shown |-> h.shown, subplots |-> h.subplots]
           /\ IF h.raised
              THEN /\ pc' = "failed"
                   /\ err' = h.err
                   /\ UNCHANGED csv
              ELSE /\ pc' = "done"
                   /\ csv' = [written |-> TRUE,
                              name |-> "coronaviruses_freq_index.csv",
                              table |-> build_kmer_freq_index(all_kmer_counts)]
                   /\ UNCHANGED err
    /\ UNCHANGED <<k, fasta, sequences, unique_kmers, idx, kmer_counts,
                   all_kmer_counts, call>>

Next == GetSequences \/ GetUniqueKmers \/ CountRecord \/ PlotAndWrite

Spec == Init /\ [][Next]_vars

Terminal == pc \in {"done", "failed"}

\* ------------------------------------------- the functions on their own

\* what the run's variables hold while a single function is exercised
Idle ==
    /\ pc = "idle"
    /\ k = 0
    /\ fasta = <<>>
    /\ sequences = <<>>
    /\ unique_kmers = {}
    /\ idx = 0
    /\ kmer_counts = <<>>
    /\ all_kmer_counts = <<>>
    /\ figure = NoFigure
    /\ csv = NoCsv
    /\ err = NoError

\* column labels and row labels of the tables handed to build_kmer_freq_index
NameLists ==
    { <<>>, <<(<<"a">>)>>, <<(<<"b">>)>>, <<(<<"a">>), (<<"b">>)>>,
      <<(<<"b">>), (<<"a">>)>> }

RowPool == { <<"A", "C">>, <<"G", "T">>, <<"T", "A">> }

InitFn ==
    /\ Idle
    /\ \/ \E s \in SeqsUpTo(MaxLen), kk \in 0..MaxK :
             call = [fn |-> "extract_all_kmers", done |-> FALSE,
                     sequence |-> s, k |-> kk, ret |-> <<>>]
       \/ \E n \in 0..MaxRecs, t \in 0..MaxTotal, kk \in 0..MaxK :
             \E hs \in HeaderLists(n), lens \in Lengths(n, t),
                flat \in [1..t -> Bases] :
                call = [fn |-> "get_unique_kmers", done |-> FALSE,
                        sequences |-> Cut(hs, lens, flat), k |-> kk, ret |-> {}]
       \/ \E s1 \in SeqsUpTo(MaxCountLen), s2 \in SeqsUpTo(MaxCountLen),
             k1 \in 1..MaxK, k2 \in 1..MaxK :
             call = [fn |-> "count_kmers", done |-> FALSE,
                     kmer_index |-> SetOf(extract_kmers(s1, k1)),
                     kmers |-> extract_kmers(s2, k2), ret |-> <<>>]
       \/ \E names \in NameLists, rows \in SUBSET RowPool :
             \E f \in [1..Len(names) -> [rows -> 0..MaxCount]] :
                call = [fn |-> "build_kmer_freq_index", done |-> FALSE,
                        all_kmer_counts |->
                            [j \in 1..Len(names) |->
                                [key |-> names[j], val |-> f[j]]],
                        ret |-> <<>>]

Unchanged_run ==
    UNCHANGED <<pc, k, fasta, sequences, unique_kmers, idx, kmer_counts,
                all_kmer_counts, figure, csv, err>>

Apply_extract_all_kmers ==
    /\ call.fn = "extract_all_kmers" /\ ~call.done
    /\ call' = [call EXCEPT !.done = TRUE,
                            !.ret = extract_all_kmers(call.sequence, call.k)]
    /\ Unchanged_run

Apply_get_unique_kmers ==
    /\ call.fn = "get_unique_kmers" /\ ~call.done
    /\ call' = [call EXCEPT !.done = TRUE,
                            !.ret = get_unique_kmers(call.sequences, call.k)]
    /\ Unchanged_run

Apply_count_kmers ==
    /\ call.fn = "count_kmers" /\ ~call.done
    /\ call' = [call EXCEPT !.done = TRUE,
                            !.ret = count_kmers(call.kmer_index, call.kmers)]
    /\ Unchanged_run

Apply_build_kmer_freq_index ==
    /\ call.fn = "build_kmer_freq_index" /\ ~call.done
    /\ call' = [call EXCEPT !.done = TRUE,
                            !.ret = build_kmer_freq_index(call.all_kmer_counts)]
    /\ Unchanged_run

NextFn ==
    \/ Apply_extract_all_kmers
    \/ Apply_get_unique_kmers
    \/ Apply_count_kmers
    \/ Apply_build_kmer_freq_index

SpecFn == InitFn /\ [][NextFn]_vars

Returned(fn) == call.fn = fn /\ call.done

\* ------------------------------------------------------------- properties

Occurrences(list, x) == Cardinality({j \in 1..Len(list) : list[j] = x})

\* C1: for k >= 1, extract_all_kmers(s, k) is the k-length substrings of s at
\* offsets 0 .. len(s)-k in order, then those of reverse_complement(s) in
\* order, nothing dropped: max(0, len(s)-k+1) entries per strand.
C1_ExtractAllKmers ==
    (Returned("extract_all_kmers") /\ call.k >= 1) =>
        LET s == call.sequence
            n == Max(0, Len(s) - call.k + 1)
            rc == reverse_complement(s)
        IN  /\ Len(call.ret) = 2 * n
            /\ \A j \in 1..n :
                  /\ call.ret[j] = SubSeq(s, j, j + call.k - 1)
                  /\ call.ret[n + j] = SubSeq(rc, j, j + call.k - 1)

C1_Witness ==
    /\ Returned("extract_all_kmers")
    /\ call.sequence = <<"A", "C", "G", "T">>
    /\ call.k = 2
    /\ Len(call.ret) = 6

KmerSet(s, kk) ==
    {SubSeq(s, j, j + kk - 1) : j \in 1..Max(0, Len(s) - kk + 1)}
        \cup {SubSeq(reverse_complement(s), j, j + kk - 1) :
                 j \in 1..Max(0, Len(s) - kk + 1)}

\* C2: get_unique_kmers returns exactly the union, over the records, of the
\* k-mers of each record's two strands: a superset of every record's k-mer
\* set, nothing no record produced, and for two records with disjoint k-mer
\* sets a set as large as the two together.
C2_UniqueKmers ==
    Returned("get_unique_kmers") =>
        LET d == call.sequences
            each == [j \in 1..Len(d) |-> KmerSet(d[j].val, call.k)]
        IN  /\ \A j \in 1..Len(d) : each[j] \subseteq call.ret
            /\ \A x \in call.ret : \E j \in 1..Len(d) : x \in each[j]
            /\ (Len(d) = 2 /\ each[1] \cap each[2] = {}) =>
                   Cardinality(call.ret) =
                       Cardinality(each[1]) + Cardinality(each[2])

C2_Witness ==
    /\ Returned("get_unique_kmers")
    /\ Len(call.sequences) = 2
    /\ call.k >= 1
    /\ LET a == KmerSet(call.sequences[1].val, call.k)
           b == KmerSet(call.sequences[2].val, call.k)
       IN  a # {} /\ b # {} /\ a \cap b = {}
           /\ Cardinality(call.ret) = Cardinality(a) + Cardinality(b)

\* C3: the count mapping main obtains for each record has one entry per
\* k-mer of the universe, each the number of occurrences of that k-mer in the
\* record's k-mer list, and the entries sum to the length of that list.
C3_CountMapping ==
    /\ pc = "failed" => err.type # "KeyError"
    /\ (pc \in {"count", "done", "failed"} /\ idx >= 1) =>
        LET kmers == extract_all_kmers(sequences[idx].val, k)
        IN  /\ DOMAIN kmer_counts = unique_kmers
            /\ \A x \in unique_kmers :
                  kmer_counts[x] \in Nat /\ kmer_counts[x] = Occurrences(kmers, x)
            /\ SumOver(kmer_counts, unique_kmers) = Len(kmers)
            /\ Len(kmers) = 2 * Max(0, Len(sequences[idx].val) - k + 1)
            /\ \A j \in 1..Len(all_kmer_counts) :
                  DOMAIN all_kmer_counts[j].val = unique_kmers

C3_Witness ==
    /\ pc = "count"
    /\ idx = 2
    /\ \E x \in unique_kmers : kmer_counts[x] >= 2
    /\ \E x \in unique_kmers : kmer_counts[x] = 0

\* C4: in the table build_kmer_freq_index returns, every column whose counts
\* do not sum to zero holds in each cell the k-mer's count over that column's
\* own total, a value in [0,1], and the column sums to 1.
C4_ColumnsNormalized ==
    Returned("build_kmer_freq_index") =>
        LET akc == call.all_kmer_counts
            t == call.ret
        IN  \A j \in 1..Len(akc) :
               LET total == SumOver(akc[j].val, DOMAIN akc[j].val)
               IN  total # 0 =>
                      /\ t.columns[j] = akc[j].key
                      /\ \A r \in DOMAIN akc[j].val :
                            /\ t.cell[j][r].kind = "num"
                            /\ t.cell[j][r].num = akc[j].val[r]
                            /\ t.cell[j][r].den = total
                            /\ 0 <= t.cell[j][r].num
                            /\ t.cell[j][r].num <= t.cell[j][r].den
                      /\ SumOver([r \in DOMAIN akc[j].val |-> t.cell[j][r].num],
                                 DOMAIN akc[j].val) = t.cell[j][t.index[1]].den

C4_Witness ==
    /\ Returned("build_kmer_freq_index")
    /\ Len(call.all_kmer_counts) = 2
    /\ LET akc == call.all_kmer_counts
           s1 == SumOver(akc[1].val, DOMAIN akc[1].val)
           s2 == SumOver(akc[2].val, DOMAIN akc[2].val)
       IN  s1 # 0 /\ s2 # 0 /\ s1 # s2
           /\ \E r \in DOMAIN akc[1].val : akc[1].val[r] = 0

LoopEnded == pc \in {"count", "done", "failed"} /\ idx = Len(sequences)

\* C5: the frequency table of a run (the table line 157 builds from
\* all_kmer_counts once the loop over the records has ended) has one row per
\* k-mer of the universe and one column per record of the FASTA mapping.
C5_OneColumnPerRecord ==
    LoopEnded =>
        LET t == build_kmer_freq_index(all_kmer_counts)
        IN  /\ Len(t.columns) = Len(sequences)
            /\ Len(t.index) = Cardinality(unique_kmers)
            /\ (Len(sequences) >= 1 => SetOf(t.index) = unique_kmers)

\* the identifiers of the records that yield no k-mer at all
DegenerateNames ==
    {sequence_name(fasta[j].key) :
        j \in {i \in 1..Len(fasta) : Len(extract_all_kmers(fasta[i].val, k)) = 0}}

HasNaNColumn(t) ==
    \E j \in 1..Len(t.columns) : \E r \in DOMAIN t.cell[j] :
        t.cell[j][r].kind = "nan"

\* C6: a run over an input with a record that yields no k-mer ends in an
\* error that names that record's identifier, and writes no table with an
\* undefined column.
C6_DegenerateReported ==
    (Terminal /\ DegenerateNames # {}) =>
        /\ pc = "failed"
        /\ err.subject \in DegenerateNames
        /\ ~(csv.written /\ HasNaNColumn(csv.table))

\* some step of main is still to be taken (the guards of the four actions)
Running ==
    \/ pc = "start"
    \/ pc = "unique"
    \/ pc = "count" /\ idx < Len(sequences)
    \/ pc = "count" /\ idx = Len(sequences)

ParameterFault ==
    k <= 0 \/ \A j \in 1..Len(fasta) : k > Len(fasta[j].val)

ValidInput ==
    /\ k >= 1
    /\ Len(fasta) >= 1
    /\ \A j \in 1..Len(fasta) : Len(fasta[j].val) >= k

\* C8: a run is complete only with the figure shown (a subplot per sequence,
\* titled by its identifier, built from its counts) and the CSV file written,
\* and a run over at least one sequence, each of length >= k >= 1, ends
\* complete.
C8_ValidRunCompletes ==
    /\ pc = "done" =>
          /\ figure.shown
          /\ figure.subplots = Subplots(all_kmer_counts)
          /\ Len(figure.subplots) = Len(sequences)
          /\ csv.written
          /\ csv.name = "coronaviruses_freq_index.csv"
    /\ (ValidInput /\ Terminal) => pc = "done"

\* C9: a run ends with both outputs produced or with neither, and a run that
\* ends in error has produced neither.
C9_OutputsAtomic ==
    Terminal =>
        /\ figure.shown <=> csv.written
        /\ pc = "failed" => (~figure.shown /\ ~csv.written)
        /\ pc = "done" => (figure.shown /\ csv.written)

C9_Witness ==
    /\ pc = "failed"
    /\ ValidInput
    /\ Len(fasta) = 2
    /\ ~figure.shown
    /\ ~csv.written

\* C10: count_kmers given a k-mer list with a k-mer outside kmer_index ends
\* in an error and returns no mapping; whatever it returns has no key outside
\* kmer_index; kmer_index and the list are left as they were.
C10_UnknownKmerRaises ==
    Returned("count_kmers") =>
        /\ (\E j \in 1..Len(call.kmers) : call.kmers[j] \notin call.kmer_index)
              => (call.ret.raised /\ call.ret.err.type = "KeyError"
                  /\ call.ret.value = <<>>)
        /\ ~call.ret.raised => DOMAIN call.ret.value \subseteq call.kmer_index
        /\ call.ret.kmer_index = call.kmer_index
        /\ call.ret.kmers = call.kmers

C10_Witness ==
    /\ Returned("count_kmers")
    /\ call.kmer_index # {}
    /\ \E j \in 1..Len(call.kmers) : call.kmers[j] \notin call.kmer_index
    /\ \E j \in 1..Len(call.kmers) : call.kmers[j] \in call.kmer_index
    /\ call.ret.raised

====
